---------------------------- MODULE Spec2Model ----------------------------
(***************************************************************************)
(* ViewportWidget (src/src/ViewportWidget.cpp): a QOpenGLWidget that owns  *)
(* two shaders and two meshes, creates them in initializeGL, releases them *)
(* in the cleanup slot connected to QOpenGLContext::aboutToBeDestroyed,    *)
(* and draws a grid pass and a mesh pass in paintGL.                       *)
(* resizeGL sets the GL viewport; the mouse, wheel and key handlers drive  *)
(* the camera of the scene and request redraws.                            *)
(*                                                                         *)
(* One action per handler.  The toolkit (Qt) is the environment: it        *)
(* creates and destroys the widget's context, makes contexts current and   *)
(* calls the handlers.                                                     *)
(*                                                                         *)
(* Spec follows the lifecycle and the frames, ResizeSpec the surface size  *)
(* and the aspect ratio of the frames, InputSpec the input handlers.       *)
(***************************************************************************)
EXTENDS Integers, Sequences, FiniteSets, TLC

\* ------------------------------------------------------------------ bounds
\* Graphics contexts the toolkit gives the widget over its life (a context
\* is replaced when the widget moves to another top-level window).
MaxContexts == 2
\* Entities in the registry when a frame is drawn.
NumEntities == 2
\* Entries of GridComponent::levels of every grid of a frame.
NumLevels == 1
\* Largest width and height the toolkit gives the surface.
MaxDim == 2
\* Largest cursor coordinate of a mouse event.
MaxCoord == 1
\* Largest magnitude of an orbit angle or a look-at coordinate of the camera.
PoseLimit == 1
\* Largest distance-to-target of the camera.
MaxDistance == 2

\* ------------------------------------------------------------- resources
\* The four unique_ptr members, in the order initializeGL constructs them.
InitOrder == <<"gridShader", "phongShader", "gridMesh", "cubeMesh">>

Resources == {InitOrder[i] : i \in 1..Len(InitOrder)}

\* Position of a resource in the construction order.
OrderOf(r) == CHOOSE i \in 1..Len(InitOrder) : InitOrder[i] = r

\* A null unique_ptr / a null QOpenGLContext*.
Null == 0

\* QOpenGLContext::currentContext() when another surface's context is current.
Foreign == -1

VARIABLES
    widget,          \* "alive" | "destroyed" | "crashed"
    context,         \* this->context(): the widget's live context, Null if none
    contextsMade,    \* contexts the toolkit has created for the widget so far
    current,         \* the context current on the thread: Null, Foreign or an id
    m_glContext,     \* the stored QOpenGLContext* (may dangle)
    cleanupConns,    \* connections aboutToBeDestroyed(context) -> cleanup
    m_gridShader,    \* Null, or the context the Shader was created under
    m_gridMesh,
    m_phongShader,
    m_cubeMesh,
    timerActive,     \* m_animationTimer.isActive()
    timerConns,      \* connections m_animationTimer.timeout -> update
    freed,           \* per member: deletions of the object it holds or held last
    releases,        \* the deletions so far: which member, by which code path,
                     \* under its own context or not, of a deleted object or not
    cleanupEver,     \* cleanup() has run at least once
    failedEver,      \* the members whose constructor threw in some initializeGL
    step,            \* what the handler that just ran did
    frame,           \* the registry read and the GL calls issued by a paintGL step
    surfaceSize,     \* <<width(), height()>> of the widget
    viewport,        \* the <<w, h>> of the last glViewport call of resizeGL
    camera,          \* the Camera of the CameraComponent of m_cameraEntity
    m_lastMousePos,  \* the QPoint <<x, y>> the mouse handlers store
    event            \* the event the handler that just ran received, and the
                     \* calls it made on the camera and on update()

vars == <<widget, context, contextsMade, current, m_glContext, cleanupConns,
          m_gridShader, m_gridMesh, m_phongShader, m_cubeMesh,
          timerActive, timerConns, freed, releases,
          cleanupEver, failedEver, step, frame,
          surfaceSize, viewport, camera, m_lastMousePos, event>>

\* What the lifecycle handlers leave alone.
inputVars == <<surfaceSize, viewport, camera, m_lastMousePos>>

\* What the resize and input handlers leave alone.
glVars == <<widget, context, contextsMade, current, m_glContext, cleanupConns,
            m_gridShader, m_gridMesh, m_phongShader, m_cubeMesh,
            timerActive, timerConns, freed, releases, cleanupEver, failedEver>>

\* The unique_ptr member holding resource r.
Ptr(r) ==
    CASE r = "gridShader" -> m_gridShader
      [] r = "gridMesh" -> m_gridMesh
      [] r = "phongShader" -> m_phongShader
      [] r = "cubeMesh" -> m_cubeMesh

Held == {r \in Resources : Ptr(r) # Null}

Holding == Held # {}



\* ------------------------------------------------------- the step record
\* op: the handler; cleanupRuns: executions of cleanup() in the step;
\* heldBefore: the members set when the step began; failAt: the member whose
\* constructor threw in initializeGL ("none" otherwise); logs: qCritical lines
\* written; threw: an exception left the handler; updates: calls of update().
StepOf(op, runs, failAt, logs, threw, updates) ==
    [op |-> op, cleanupRuns |-> runs, heldBefore |-> Held, failAt |-> failAt,
     logs |-> logs, threw |-> threw, updates |-> updates]

NoFrame == [drawn |-> FALSE, scene |-> <<>>, calls |-> <<>>, aspect |-> <<>>]

\* The event record of a step that is no resize or input handler.  op: the
\* handler; args: what the event carries; before: the camera when the handler
\* began; calls: the calls the handler made on the camera and on update(), in
\* order.
NoEvent == [op |-> "none", args |-> <<>>, before |-> <<>>, calls |-> <<>>]

\* ------------------------------------------------ context current / not
\* QOpenGLWidget::makeCurrent(): makes the widget's context current; does
\* nothing when the widget has no context.
makeCurrent(cur) == IF context # Null THEN context ELSE cur

\* QOpenGLWidget::doneCurrent(): likewise.
doneCurrent(cur) == IF context # Null THEN Null ELSE cur

\* --------------------------------------------------------------- deletion
\* The part of the state a deletion touches.
ResState ==
    [ptr |-> [r \in Resources |-> Ptr(r)], current |-> current,
     freed |-> freed, releases |-> releases]

\* delete of the objects the members D point to, while cur is the current
\* context, from code path by.  own: the context the object was created under
\* is the current one; again: the object had been deleted before.
Delete(s, D, cur, by) ==
    [s EXCEPT
       !.freed = [r \in Resources |-> s.freed[r] + (IF r \in D THEN 1 ELSE 0)],
       !.releases = s.releases \cup
           {[res |-> r, by |-> by, own |-> (cur = s.ptr[r]),
             again |-> (s.freed[r] > 0)] : r \in D}]

\* std::unique_ptr::reset() on every member: deletes what is held and leaves
\* the member null.
ResetAll(s, cur, by) ==
    LET D == {r \in Resources : s.ptr[r] # Null}
    IN  [Delete(s, D, cur, by) EXCEPT !.ptr = [r \in Resources |-> Null]]

\* A cleanup that deletes the objects and keeps the (now dangling) pointers,
\* as raw owning pointers would.
cleanupKeepsPointers(s) ==
    LET cur == makeCurrent(s.current)
        D == {r \in Resources : s.ptr[r] # Null}
    IN  [Delete(s, D, cur, "cleanup") EXCEPT !.current = doneCurrent(cur)]

\* A cleanup that resets the two shaders and forgets the two meshes.
cleanupForgetsMeshes(s) ==
    LET cur == makeCurrent(s.current)
        D == {r \in {"gridShader", "phongShader"} : s.ptr[r] # Null}
    IN  [Delete(s, D, cur, "cleanup") EXCEPT
           !.ptr = [r \in Resources |->
                      IF r \in {"gridShader", "phongShader"} THEN Null
                      ELSE s.ptr[r]],
           !.current = doneCurrent(cur)]

\* ViewportWidget::cleanup(): makeCurrent(), four reset(), doneCurrent().
cleanup(s) ==
    LET cur == makeCurrent(s.current)
    IN  [ResetAll(s, cur, "cleanup") EXCEPT !.current = doneCurrent(cur)]

\* cleanup() run n times, once per connection of the signal.
RECURSIVE cleanupTimes(_, _)
cleanupTimes(s, n) == IF n = 0 THEN s ELSE cleanupTimes(cleanup(s), n - 1)

\* The members, the current context and the deletion record become those of s.
Becomes(s) ==
    /\ m_gridShader' = s.ptr["gridShader"]
    /\ m_gridMesh' = s.ptr["gridMesh"]
    /\ m_phongShader' = s.ptr["phongShader"]
    /\ m_cubeMesh' = s.ptr["cubeMesh"]
    /\ current' = s.current
    /\ freed' = s.freed
    /\ releases' = s.releases

\* ------------------------------------------------------------ the surface
\* No glViewport call yet.
NoViewport == <<>>

RECURSIVE Gcd(_, _)
Gcd(a, b) == IF b = 0 THEN a ELSE Gcd(b, a % b)

\* static_cast<float>(w) / static_cast<float>(h) for w >= 0, h >= 0: the
\* quotient as a fraction <<n, d>> in lowest terms; a division by zero gives
\* <<1, 0>> (infinity) or <<0, 0>> (NaN), it does not trap.
FloatDiv(w, h) ==
    IF h = 0 THEN << (IF w = 0 THEN 0 ELSE 1), 0 >>
    ELSE LET g == Gcd(w, h) IN << w \div g, h \div g >>

\* 1.0f
One == <<1, 1>>

\* An aspect ratio computed without the test of height().
aspectRatioUnguarded(w, h) == FloatDiv(w, h)

\* paintGL: (height() > 0) ? width() / height() : 1.0f
aspectRatio(w, h) == IF h > 0 THEN FloatDiv(w, h) ELSE One

\* ------------------------------------------------------------- the camera
\* Camera (spec 4.2): a projection mode, orbit angles, a look-at target and a
\* distance to it.
KnownGoodView ==
    [perspective |-> TRUE, orbit |-> <<0, 0>>, target |-> <<0, 0>>, distance |-> 1]

\* The smallest distance-to-target.
MinDistance == 1

\* processMouseMovement(dx, dy, isPanning): orbiting rotates the orbit angles
\* by (dx, -dy); panning translates the look-at target by (dx, dy) scaled by
\* the distance to it.
processMouseMovement(cam, dx, dy, isPanning) ==
    IF isPanning
    THEN [cam EXCEPT !.target = << @[1] + dx * cam.distance,
                                   @[2] + dy * cam.distance >>]
    ELSE [cam EXCEPT !.orbit = << @[1] + dx, @[2] - dy >>]

\* processMouseScroll(delta): a positive delta moves the camera closer, down
\* to the smallest distance.
processMouseScroll(cam, delta) ==
    [cam EXCEPT !.distance = IF @ - delta < MinDistance THEN MinDistance
                             ELSE @ - delta]

\* toggleProjection(): flips perspective / orthographic.
toggleProjection(cam) == [cam EXCEPT !.perspective = ~@]

\* setToKnownGoodView(): position, orientation and distance back to the
\* default; the projection mode stays.
setToKnownGoodView(cam) ==
    [KnownGoodView EXCEPT !.perspective = cam.perspective]

\* One call a handler makes: fn on the camera, or update() on the widget.
Invoke(fn, args) == [fn |-> fn, args |-> args]

\* The camera after call c.
AfterCall(cam, c) ==
    CASE c.fn = "processMouseMovement" ->
             processMouseMovement(cam, c.args[1], c.args[2], c.args[3])
      [] c.fn = "processMouseScroll" -> processMouseScroll(cam, c.args[1])
      [] c.fn = "toggleProjection" -> toggleProjection(cam)
      [] c.fn = "setToKnownGoodView" -> setToKnownGoodView(cam)
      [] OTHER -> cam

\* The camera after the calls of a handler, in order.
RECURSIVE AfterCalls(_, _)
AfterCalls(cam, calls) ==
    IF calls = <<>> THEN cam
    ELSE AfterCalls(AfterCall(cam, Head(calls)), Tail(calls))

Abs(x) == IF x < 0 THEN -x ELSE x

\* The poses the model follows the camera through: within PoseLimit steps of
\* the known good view and MaxDistance of the target.
InReach(cam) ==
    /\ Abs(cam.orbit[1]) + Abs(cam.orbit[2])
          + Abs(cam.target[1]) + Abs(cam.target[2]) <= PoseLimit
    /\ cam.distance <= MaxDistance

\* ------------------------------------------------------------------ Init
\* The state the constructor leaves: no context yet, every member null, the
\* timer idle.
Init ==
    /\ widget = "alive"
    /\ context = Null
    /\ contextsMade = 0
    /\ current = Null
    /\ m_glContext = Null
    /\ cleanupConns = 0
    /\ m_gridShader = Null
    /\ m_gridMesh = Null
    /\ m_phongShader = Null
    /\ m_cubeMesh = Null
    /\ timerActive = FALSE
    /\ timerConns = 0
    /\ freed = [r \in Resources |-> 0]
    /\ releases = {}
    /\ cleanupEver = FALSE
    /\ failedEver = {}
    /\ step = [op |-> "constructor", cleanupRuns |-> 0, heldBefore |-> {},
               failAt |-> "none", logs |-> 0, threw |-> FALSE, updates |-> 0]
    /\ frame = NoFrame
    /\ surfaceSize = <<0, 0>>
    /\ viewport = NoViewport
    /\ camera = KnownGoodView
    /\ m_lastMousePos = <<0, 0>>
    /\ event = NoEvent

\* ---------------------------------------------------------- initializeGL
\* The members initializeGL assigns when the constructor of failAt throws
\* ("none": nothing throws): those constructed before it.
Constructed(failAt) ==
    IF failAt = "none" THEN Resources
    ELSE {r \in Resources : OrderOf(r) < OrderOf(failAt)}

\* A handler that does not match what the constructors throw.
NotCaught == FALSE

\* catch (const std::exception&): the handler of the try block catches what
\* the Shader and Mesh constructors throw.
Caught == TRUE

\* A timer block that connects on every initializeGL.
ConnectsTimerAlways(active) == TRUE

\* if (!m_animationTimer.isActive()): connect timeout to update() and start.
ConnectsTimer(active) == ~active

\* ViewportWidget::initializeGL(), called by the toolkit with a context it
\* has just created and made current.  It runs once per context: the toolkit
\* creates a context only when the widget has none.
initializeGL ==
    /\ widget = "alive"
    /\ context = Null
    /\ contextsMade < MaxContexts
    /\ \E failAt \in Resources \cup {"none"} :
         LET c == contextsMade + 1
             made == Constructed(failAt)
             \* assigning a unique_ptr deletes what it held
             old == made \cap Held
             s0 == Delete(ResState, old, c, "assign")
             s1 == [s0 EXCEPT
                      !.ptr = [r \in Resources |->
                                 IF r \in made THEN c ELSE s0.ptr[r]],
                      !.freed = [r \in Resources |->
                                   IF r \in made THEN 0 ELSE s0.freed[r]],
                      !.current = c]
             threw == failAt # "none" /\ ~Caught
         IN  /\ context' = c
             /\ contextsMade' = c
             /\ m_glContext' = c
             /\ cleanupConns' = cleanupConns + 1
             /\ Becomes(s1)
             \* an exception that leaves the try block uncaught skips the rest
             /\ timerActive' = (timerActive \/ ~threw)
             /\ timerConns' = IF threw \/ ~ConnectsTimer(timerActive)
                              THEN timerConns
                              ELSE timerConns + 1
             /\ failedEver' = failedEver \cup (Resources \cap {failAt})
             /\ step' = StepOf("initializeGL", 0, failAt,
                               IF failAt # "none" /\ Caught THEN 1 ELSE 0,
                               threw, 0)
    /\ frame' = NoFrame
    /\ event' = NoEvent
    /\ UNCHANGED inputVars
    /\ UNCHANGED <<widget, cleanupEver>>

\* ------------------------------------------------------ the cleanup slot
\* The toolkit destroys the widget's context (the widget moved to another
\* top-level window): it makes the context current and emits
\* aboutToBeDestroyed, which runs cleanup() once per connection
\* (Qt::DirectConnection), and then the context is gone.
contextDestroyed ==
    /\ widget = "alive"
    /\ context # Null
    /\ LET s0 == [ResState EXCEPT !.current = context]
           s1 == cleanupTimes(s0, cleanupConns)
       IN  Becomes([s1 EXCEPT !.current = Null])
    /\ context' = Null
    /\ cleanupConns' = 0
    /\ cleanupEver' = (cleanupEver \/ cleanupConns > 0)
    /\ step' = StepOf("contextDestroyed", cleanupConns, "none", 0, FALSE, 0)
    /\ frame' = NoFrame
    /\ event' = NoEvent
    /\ UNCHANGED inputVars
    /\ UNCHANGED <<widget, contextsMade, m_glContext, timerActive, timerConns,
                   failedEver>>

\* ------------------------------------------------------------ destructor
\* ViewportWidget::~ViewportWidget().  The body disconnects cleanup from
\* m_glContext; then the members are destroyed (each unique_ptr deletes what
\* it holds, under whatever context is current); then ~QOpenGLWidget destroys
\* the context, whose signal no longer reaches the widget.  When m_glContext
\* points to a context that is already destroyed the disconnect reads a dead
\* object: the call may return or crash.
destructor ==
    /\ widget = "alive"
    /\ \E outcome \in {"returns", "crashes"} :
         /\ (outcome = "crashes") => (m_glContext # Null /\ m_glContext # context)
         /\ IF outcome = "crashes"
            THEN /\ widget' = "crashed"
                 /\ step' = StepOf("destructor", 0, "none", 0, FALSE, 0)
                 /\ UNCHANGED <<context, current, cleanupConns, m_gridShader,
                                m_gridMesh, m_phongShader, m_cubeMesh,
                                timerActive, timerConns, freed, releases>>
            ELSE /\ widget' = "destroyed"
                 /\ LET s1 == ResetAll(ResState, current, "destructor")
                    IN  Becomes([s1 EXCEPT !.current = doneCurrent(current)])
                 /\ context' = Null
                 /\ cleanupConns' = 0
                 /\ timerActive' = FALSE
                 /\ timerConns' = 0
                 /\ step' = StepOf("destructor", 0, "none", 0, FALSE, 0)
    /\ frame' = NoFrame
    /\ event' = NoEvent
    /\ UNCHANGED inputVars
    /\ UNCHANGED <<contextsMade, m_glContext, cleanupEver, failedEver>>

\* ------------------------------------------------------------ environment
\* Another viewport of the window paints: its context becomes the current one.
otherSurfaceCurrent ==
    /\ widget = "alive"
    /\ current # Foreign
    /\ current' = Foreign
    /\ step' = StepOf("otherSurface", 0, "none", 0, FALSE, 0)
    /\ frame' = NoFrame
    /\ event' = NoEvent
    /\ UNCHANGED inputVars
    /\ UNCHANGED <<widget, context, contextsMade, m_glContext, cleanupConns,
                   m_gridShader, m_gridMesh, m_phongShader, m_cubeMesh,
                   timerActive, timerConns, freed, releases,
                   cleanupEver, failedEver>>

\* m_animationTimer fires: every connection made in initializeGL calls update().
timerTick ==
    /\ widget = "alive"
    /\ timerActive
    /\ step' = StepOf("timerTick", 0, "none", 0, FALSE, timerConns)
    /\ frame' = NoFrame
    /\ event' = NoEvent
    /\ UNCHANGED inputVars
    /\ UNCHANGED <<widget, context, contextsMade, current, m_glContext,
                   cleanupConns, m_gridShader, m_gridMesh, m_phongShader,
                   m_cubeMesh, timerActive, timerConns, freed, releases,
                   cleanupEver, failedEver>>

\* ------------------------------------------------------------ the registry
\* What a frame reads from the registry.  Entity e carries the components its
\* kind names.  The entities form a chain: entity e > 1 has parent e - 1, and
\* the ParentComponent of entity 1 names an entity that has been destroyed.
EntityIds == 1..NumEntities

\* Every entity has a TransformComponent.  "grid": a GridComponent, visible;
\* "hiddenGrid": a GridComponent with visible = false; "mesh": a
\* RenderableMeshComponent; "meshHit": a mesh the Intersection System has
\* flagged as intersecting.
Kinds == {"grid", "hiddenGrid", "mesh", "meshHit"}

Registries == [kind : [EntityIds -> Kinds]]

\* The id of a destroyed entity.
DestroyedEntity == 0

HasGrid(reg, e) == reg.kind[e] \in {"grid", "hiddenGrid"}

\* GridComponent::visible
Visible(reg, e) == reg.kind[e] # "hiddenGrid"

HasRenderableMesh(reg, e) == reg.kind[e] \in {"mesh", "meshHit"}

Intersecting(reg, e) == reg.kind[e] = "meshHit"

\* ParentComponent::parent
ParentOf(reg, e) == IF e > 1 THEN e - 1 ELSE DestroyedEntity

\* A transform is the matrix [[a, b], [0, 1]], written <<a, b>>: a scale and
\* a translation along one axis.  The product is glm's operator*.
MatMul(m, n) == <<m[1] * n[1], m[1] * n[2] + m[2]>>

\* The local transform of entity e: scale e + 1, translation e.
LocalOf(e) == <<e + 1, e>>

\* TransformComponent::getTransform(): the component's own (local) matrix.
getTransform(reg, e) == LocalOf(e)

\* Transform Resolution (spec 4.1): world = parentWorld * local, stopping at
\* an entity with no valid parent.
RECURSIVE resolveWorldTransform(_, _)
resolveWorldTransform(reg, e) ==
    LET p == ParentOf(reg, e)
    IN  IF p \in EntityIds
        THEN MatMul(resolveWorldTransform(reg, p), getTransform(reg, e))
        ELSE getTransform(reg, e)

\* ----------------------------------------------------------------- paintGL
\* One GL call of a frame.  target: the shader or mesh; name: the uniform;
\* entity: the entity the call is issued for, 0 for a per-pass call; value:
\* the matrix of a model-matrix uniform, <<>> otherwise.
Call(op, target, name, e, value) ==
    [op |-> op, target |-> target, name |-> name, entity |-> e, value |-> value]

Use(shader) == Call("use", shader, "", 0, <<>>)

SetUniform(shader, name, e) == Call("set", shader, name, e, <<>>)

SetMat4(shader, name, e, m) == Call("set", shader, name, e, m)

Draw(mesh, e) == Call("draw", mesh, "", e, <<>>)

\* Concatenation of f(1), ..., f(n) for a function f to sequences.
RECURSIVE Concat(_, _)
Concat(f, n) == IF n = 0 THEN <<>> ELSE Concat(f, n - 1) \o f[n]

\* The four uniforms of grid level i (0-based, as in u_levels[i]).
LevelUniforms(e, i) ==
    LET base == "u_levels[" \o ToString(i) \o "]."
    IN  << SetUniform("gridShader", base \o "spacing", e),
           SetUniform("gridShader", base \o "color", e),
           SetUniform("gridShader", base \o "fadeInCameraDistanceEnd", e),
           SetUniform("gridShader", base \o "fadeInCameraDistanceStart", e) >>

\* The lambda of gridView.each with the visibility test left out.
GridEntityCallsIgnoringVisible(reg, e) ==
    << SetMat4("gridShader", "u_gridModelMatrix", e, getTransform(reg, e)),
       SetUniform("gridShader", "u_numLevels", e) >>
    \o Concat([i \in 1..NumLevels |-> LevelUniforms(e, i - 1)], NumLevels)
    \o << SetUniform("gridShader", "u_showAxes", e),
          SetUniform("gridShader", "u_xAxisColor", e),
          SetUniform("gridShader", "u_zAxisColor", e),
          SetUniform("gridShader", "u_axisLineWidthPixels", e),
          SetUniform("gridShader", "u_baseLineWidthPixels", e),
          Draw("gridMesh", e) >>

\* The lambda of gridView.each for one entity of the view.
GridEntityCalls(reg, e) ==
    IF ~Visible(reg, e) THEN <<>>
    ELSE << SetMat4("gridShader", "u_gridModelMatrix", e, getTransform(reg, e)),
            SetUniform("gridShader", "u_numLevels", e) >>
         \o Concat([i \in 1..NumLevels |-> LevelUniforms(e, i - 1)], NumLevels)
         \o << SetUniform("gridShader", "u_showAxes", e),
               SetUniform("gridShader", "u_xAxisColor", e),
               SetUniform("gridShader", "u_zAxisColor", e),
               SetUniform("gridShader", "u_axisLineWidthPixels", e),
               SetUniform("gridShader", "u_baseLineWidthPixels", e),
               Draw("gridMesh", e) >>

\* registry.view<const TransformComponent, const GridComponent>()
InGridView(reg, e) == HasGrid(reg, e)

\* registry.view<const TransformComponent, const RenderableMeshComponent>()
InMeshView(reg, e) == HasRenderableMesh(reg, e)

\* "1. Draw all Grid Entities": the body of the first if.
GridPass(reg) ==
    << Use("gridShader"),
       SetUniform("gridShader", "u_viewMatrix", 0),
       SetUniform("gridShader", "u_projectionMatrix", 0),
       SetUniform("gridShader", "u_cameraPos", 0),
       SetUniform("gridShader", "u_cameraDistanceToFocal", 0),
       SetUniform("gridShader", "u_useFog", 0),
       SetUniform("gridShader", "u_fogColor", 0),
       SetUniform("gridShader", "u_fogStartDistance", 0),
       SetUniform("gridShader", "u_fogEndDistance", 0) >>
    \o Concat([e \in EntityIds |->
                 IF InGridView(reg, e) THEN GridEntityCalls(reg, e) ELSE <<>>],
              NumEntities)

\* The lambda of meshView.each for one entity of the view.
MeshEntityCalls(reg, e) ==
    << SetMat4("phongShader", "model", e, getTransform(reg, e)),
       Draw("cubeMesh", e) >>

\* A mesh pass that draws with whatever program is bound.
MeshPassWithoutUse(reg) ==
    << SetUniform("phongShader", "view", 0),
       SetUniform("phongShader", "projection", 0) >>
    \o Concat([e \in EntityIds |->
                 IF InMeshView(reg, e) THEN MeshEntityCalls(reg, e) ELSE <<>>],
              NumEntities)

\* "2. Draw all Renderable Mesh Entities": the body of the second if.
MeshPass(reg) ==
    << Use("phongShader"),
       SetUniform("phongShader", "view", 0),
       SetUniform("phongShader", "projection", 0) >>
    \o Concat([e \in EntityIds |->
                 IF InMeshView(reg, e) THEN MeshEntityCalls(reg, e) ELSE <<>>],
              NumEntities)

\* A guard of the grid pass that tests the shader alone.
GridPassRunsShaderOnly == m_gridShader # Null

\* if (m_gridShader && m_gridMesh)
GridPassRuns == m_gridShader # Null /\ m_gridMesh # Null

\* if (m_phongShader && m_cubeMesh)
MeshPassRuns == m_phongShader # Null /\ m_cubeMesh # Null

\* The GL calls of one paintGL over the registry reg.
Render(reg) ==
    << Call("clear", "", "", 0, <<>>) >>
    \o (IF GridPassRuns THEN GridPass(reg) ELSE <<>>)
    \o (IF MeshPassRuns THEN MeshPass(reg) ELSE <<>>)

\* ViewportWidget::paintGL().  The toolkit makes the widget's context current
\* before the call.  Nothing in the handler tests the lifecycle, so it is
\* taken in every state of a live widget.
paintGL ==
    /\ widget = "alive"
    /\ \E reg \in Registries :
         frame' = [drawn |-> TRUE, scene |-> reg, calls |-> Render(reg),
                   aspect |-> aspectRatio(surfaceSize[1], surfaceSize[2])]
    /\ current' = makeCurrent(current)
    /\ step' = StepOf("paintGL", 0, "none", 0, FALSE, 0)
    /\ UNCHANGED <<widget, context, contextsMade, m_glContext, cleanupConns,
                   m_gridShader, m_gridMesh, m_phongShader, m_cubeMesh,
                   timerActive, timerConns, freed, releases, cleanupEver,
                   failedEver>>
    /\ event' = NoEvent
    /\ UNCHANGED inputVars

\* ---------------------------------------------------------------- resizeGL
\* The widths and heights of a resize.
Dims == -1..MaxDim

\* QWidget::width() / height() after a resize to x: never negative.
WidgetDim(x) == IF x < 0 THEN 0 ELSE x

\* if (w <= 0 || h <= 0) return;
Ignored(w, h) == w <= 0 \/ h <= 0

\* The toolkit resizes the widget and calls ViewportWidget::resizeGL(w, h)
\* with the widget's context current.
resizeGL ==
    /\ widget = "alive"
    /\ context # Null
    /\ \E w, h \in Dims :
         /\ surfaceSize' = <<WidgetDim(w), WidgetDim(h)>>
         /\ viewport' = IF Ignored(w, h) THEN viewport ELSE <<w, h>>
         /\ event' = [op |-> "resizeGL", args |-> <<w, h>>, before |-> camera,
                      calls |-> <<>>]
    /\ current' = context
    /\ step' = StepOf("resizeGL", 0, "none", 0, FALSE, 0)
    /\ frame' = NoFrame
    /\ UNCHANGED <<widget, context, contextsMade, m_glContext, cleanupConns,
                   m_gridShader, m_gridMesh, m_phongShader, m_cubeMesh,
                   timerActive, timerConns, freed, releases, cleanupEver,
                   failedEver, camera, m_lastMousePos>>

\* ---------------------------------------------------------- input handlers
Coords == 0..MaxCoord

\* event->pos()
Positions == Coords \X Coords

\* event->buttons(): the buttons held during the event.
ButtonSets == SUBSET {"left", "middle", "right"}

UpdateCall == Invoke("update", <<>>)

\* The calls of update() among the calls of a handler.
Updates(calls) ==
    Cardinality({i \in DOMAIN calls : calls[i] = UpdateCall})

\* The camera calls among the calls of a handler, in order.
CameraCalls(calls) == SelectSeq(calls, LAMBDA c : c # UpdateCall)

\* The event record and the bookkeeping of an input handler that made calls.
Handled(op, args, calls) ==
    /\ InReach(AfterCalls(camera, calls))
    /\ camera' = AfterCalls(camera, calls)
    /\ event' = [op |-> op, args |-> args, before |-> camera, calls |-> calls]
    /\ step' = StepOf(op, 0, "none", 0, FALSE, Updates(calls))
    /\ frame' = NoFrame
    /\ UNCHANGED <<surfaceSize, viewport>>
    /\ UNCHANGED glVars

\* ViewportWidget::mousePressEvent: m_lastMousePos = event->pos().
mousePressEvent ==
    /\ widget = "alive"
    /\ \E pos \in Positions :
         /\ m_lastMousePos' = pos
         /\ Handled("mousePressEvent", <<pos>>, <<>>)

\* A move handler in which the orbit button decides: panning only when the
\* left button is not held.
mouseMoveCallsOrbitWins(pos, buttons, last) ==
    LET dx == pos[1] - last[1]
        dy == pos[2] - last[2]
        isOrbiting == "left" \in buttons
        isPanning == "middle" \in buttons /\ ~isOrbiting
    IN  IF isOrbiting \/ isPanning
        THEN << Invoke("processMouseMovement", <<dx, -dy, isPanning>>),
                UpdateCall >>
        ELSE <<>>

\* The calls of mouseMoveEvent for an event at pos with buttons held, when
\* m_lastMousePos is last.
mouseMoveCalls(pos, buttons, last) ==
    LET dx == pos[1] - last[1]
        dy == pos[2] - last[2]
        isPanning == "middle" \in buttons
        isOrbiting == "left" \in buttons
    IN  IF isOrbiting \/ isPanning
        THEN << Invoke("processMouseMovement", <<dx, -dy, isPanning>>),
                UpdateCall >>
        ELSE <<>>

\* ViewportWidget::mouseMoveEvent
mouseMoveEvent ==
    /\ widget = "alive"
    /\ \E pos \in Positions, buttons \in ButtonSets :
         /\ m_lastMousePos' = pos
         /\ Handled("mouseMoveEvent", <<pos, buttons>>,
                    mouseMoveCalls(pos, buttons, m_lastMousePos))

\* angleDelta().y() of one notch of the wheel.
WheelNotch == 120

\* event->angleDelta().y(): a notch away, none (a horizontal wheel), a notch
\* towards the user.
AngleDeltas == {WheelNotch, 0, -WheelNotch}

\* The calls of wheelEvent; the quotient by 120.0f is exact for whole notches.
wheelCalls(angleDelta) ==
    << Invoke("processMouseScroll", << angleDelta \div WheelNotch >>), UpdateCall >>

\* ViewportWidget::wheelEvent
wheelEvent ==
    /\ widget = "alive"
    /\ \E angleDelta \in AngleDeltas :
         Handled("wheelEvent", <<angleDelta>>, wheelCalls(angleDelta))
    /\ UNCHANGED m_lastMousePos

\* event->key(): P, R, any other key.
Keys == {"Key_P", "Key_R", "Key_Other"}

\* A key handler that toggles the projection twice on P.
keyCallsToggleTwice(key) ==
    IF key = "Key_P"
    THEN << Invoke("toggleProjection", <<>>), Invoke("toggleProjection", <<>>),
            UpdateCall >>
    ELSE IF key = "Key_R" THEN << Invoke("setToKnownGoodView", <<>>), UpdateCall >>
    ELSE <<>>

\* A key handler that forgets update() after the view reset.
keyCallsNoUpdateOnReset(key) ==
    IF key = "Key_P" THEN << Invoke("toggleProjection", <<>>), UpdateCall >>
    ELSE IF key = "Key_R" THEN << Invoke("setToKnownGoodView", <<>>) >>
    ELSE <<>>

\* The calls of keyPressEvent.
keyCalls(key) ==
    IF key = "Key_P" THEN << Invoke("toggleProjection", <<>>), UpdateCall >>
    ELSE IF key = "Key_R" THEN << Invoke("setToKnownGoodView", <<>>), UpdateCall >>
    ELSE <<>>

\* ViewportWidget::keyPressEvent
keyPressEvent ==
    /\ widget = "alive"
    /\ \E key \in Keys : Handled("keyPressEvent", <<key>>, keyCalls(key))
    /\ UNCHANGED m_lastMousePos

Next ==
    \/ initializeGL
    \/ contextDestroyed
    \/ destructor
    \/ otherSurfaceCurrent
    \/ timerTick
    \/ paintGL

Spec == Init /\ [][Next]_vars

\* The surface being initialized, resized and painted.
ResizeNext ==
    \/ initializeGL
    \/ resizeGL
    \/ paintGL

ResizeSpec == Init /\ [][ResizeNext]_vars

\* The input events of the surface.
InputNext ==
    \/ mousePressEvent
    \/ mouseMoveEvent
    \/ wheelEvent
    \/ keyPressEvent

InputSpec == Init /\ [][InputNext]_vars

\* ------------------------------------------------------------ properties
\* The GL calls of the frame a paintGL step has just drawn.
CallsAt == DOMAIN frame.calls

\* A call that needs GPU resources: binding a shader, setting a uniform,
\* drawing a mesh (glClear needs none).
UsesResources(c) == c.op \in {"use", "set", "draw"}

\* The resources of the pass a call belongs to.
PassResources(target) ==
    IF target \in {"gridShader", "gridMesh"} THEN {"gridShader", "gridMesh"}
    ELSE IF target \in {"phongShader", "cubeMesh"} THEN {"phongShader", "cubeMesh"}
    ELSE {}

\* Member r holds an object created by the initializeGL of the context that
\* is alive and current, and never deleted.
Usable(r) ==
    /\ Ptr(r) # Null
    /\ Ptr(r) = context
    /\ current = context
    /\ freed[r] = 0

\* The draw calls of mesh for entity e in the frame.
DrawsOf(mesh, e) ==
    {i \in CallsAt : /\ frame.calls[i].op = "draw"
                     /\ frame.calls[i].target = mesh
                     /\ frame.calls[i].entity = e}

\* C1: cleanup is idempotent.  In every reachable state of a live widget,
\* running cleanup() twice in a row ends in the state one run ends in, and
\* neither the runs nor anything before them deleted an object twice.
C1_CleanupIdempotent ==
    widget = "alive" =>
        LET once == cleanup(ResState)
            twice == cleanup(once)
        IN  /\ twice = once
            /\ \A rel \in twice.releases : ~rel.again
            /\ \A r \in Held : twice.freed[r] = 1

\* C1 witness: the context's signal has run cleanup() on a widget holding all
\* four resources; each was deleted once and a further run changes nothing.
C1_Witness ==
    /\ widget = "alive"
    /\ step.op = "contextDestroyed"
    /\ step.cleanupRuns = 1
    /\ step.heldBefore = Resources
    /\ Held = {}
    /\ \A r \in Resources : freed[r] = 1
    /\ cleanup(ResState) = ResState

\* C2: every call of a frame that binds a shader, sets a uniform or draws is
\* issued while the shader and the mesh of its pass are held: created by the
\* initializeGL of the live, current context and not deleted.  A paintGL
\* before initialization or after cleanup issues none.
C2_DrawOnlyWhileInitialized ==
    frame.drawn =>
        \A i \in CallsAt :
            UsesResources(frame.calls[i]) =>
                /\ PassResources(frame.calls[i].target) # {}
                /\ \A r \in PassResources(frame.calls[i].target) : Usable(r)

\* C2 witness: a paintGL after cleanup, over a registry with a visible grid
\* and a mesh, has issued the clear and nothing else.
C2_Witness ==
    /\ frame.drawn
    /\ cleanupEver
    /\ releases # {}
    /\ ~Holding
    /\ \E e \in EntityIds : frame.scene.kind[e] = "grid"
    /\ \E e \in EntityIds : frame.scene.kind[e] = "mesh"
    /\ \A i \in CallsAt : ~UsesResources(frame.calls[i])

\* C3: every deletion of a resource of the surface, on every path (cleanup,
\* re-initialization, destruction of the widget), happens while the context
\* that created it is current.
C3_ReleasedUnderOwnContext == \A rel \in releases : rel.own

\* C4: both triggers run cleanup.  When the context signals its destruction,
\* and when the widget is destroyed while holding resources, cleanup() runs in
\* that step and it is cleanup() that releases every resource held.
C4_CleanupOnBothTriggers ==
    (/\ step.op \in {"contextDestroyed", "destructor"}
     /\ widget # "crashed"
     /\ step.heldBefore # {})
    => /\ step.cleanupRuns >= 1
       /\ ~Holding
       /\ \A r \in step.heldBefore :
              \E rel \in releases : rel.res = r /\ rel.by = "cleanup"

\* C5 as stated: the surface starts to hold resources at most once, and once
\* cleanup has run it never holds resources again.
C5_CleanedUpTerminal ==
    [][ /\ (~Holding /\ Holding') => (releases = {} /\ ~cleanupEver)
        /\ cleanupEver' => ~Holding' ]_vars

\* C5 amended: CleanedUp is left only by a further initializeGL, which the
\* toolkit calls for a new context.  A member becomes set only in an
\* initializeGL step that starts without a context; every resource held was
\* created under the one live context; every step that runs cleanup() ends
\* with no resource held.
C5_CleanedUpUntilReinitialized ==
    [][ /\ (\E r \in Resources : Ptr(r) = Null /\ Ptr(r)' # Null)
              => (step'.op = "initializeGL" /\ context = Null /\ context' # Null)
        /\ \A r \in Held' : Ptr(r)' = context'
        /\ step'.cleanupRuns > 0 => ~Holding' ]_vars

\* C5 witness: cleanup has run and released resources, and a later
\* initializeGL has made the surface hold resources again.
C5_Witness ==
    /\ cleanupEver
    /\ releases # {}
    /\ step.op = "initializeGL"
    /\ Held = Resources

\* C6 as stated: a construction failure does not leave initializeGL, is logged
\* once, and the member whose construction failed stays unset for the rest of
\* the surface's life.
C6_FailedStaysUnset ==
    /\ (step.op = "initializeGL" /\ step.failAt # "none")
           => (~step.threw /\ step.logs = 1)
    /\ \A r \in failedEver : Ptr(r) = Null

\* C6 amended: a construction failure does not leave initializeGL, is logged
\* once, and leaves the failed member unset; an unset member becomes set only
\* in a later initializeGL that constructs it; and a frame issues no call of a
\* pass one of whose resources is unset.
C6_FailedUnsetUntilReinitialized ==
    [][ /\ (step'.op = "initializeGL" /\ step'.failAt # "none")
              => /\ ~step'.threw
                 /\ step'.logs = 1
                 /\ \A r \in Resources : r = step'.failAt => Ptr(r)' = Null
        /\ (step'.op = "initializeGL" /\ step'.failAt = "none")
              => step'.logs = 0
        /\ \A r \in Resources :
              (Ptr(r) = Null /\ Ptr(r)' # Null)
                 => (step'.op = "initializeGL" /\ r \in Constructed(step'.failAt))
        /\ frame'.drawn =>
              \A i \in DOMAIN frame'.calls :
                  \A r \in PassResources(frame'.calls[i].target) : Ptr(r)' # Null
      ]_vars

\* C6 witness: the grid shader failed to construct in the initializeGL of the
\* live context, and a paintGL over a registry with a visible grid has issued
\* no call of the grid pass.
C6_Witness ==
    /\ frame.drawn
    /\ context # Null
    /\ "gridShader" \in failedEver
    /\ m_gridShader = Null
    /\ \E e \in EntityIds : frame.scene.kind[e] = "grid"
    /\ \A i \in CallsAt : frame.calls[i].target \notin {"gridShader", "gridMesh"}

\* The model-matrix uniform a draw call i is issued under: the last one set
\* before it.
ModelMatrixAt(i) ==
    LET sets == {j \in CallsAt : /\ j < i
                                 /\ frame.calls[j].op = "set"
                                 /\ frame.calls[j].name \in {"u_gridModelMatrix", "model"}}
    IN  IF sets = {} THEN <<>>
        ELSE frame.calls[CHOOSE j \in sets : \A k \in sets : k <= j].value

\* C7: the model matrix a draw call is issued under is the world transform of
\* its entity: the product of the local transforms along its parent chain,
\* root first, a dangling parent counting as no parent.
C7_ModelMatrixIsWorldTransform ==
    frame.drawn =>
        \A i \in CallsAt :
            frame.calls[i].op = "draw" =>
                ModelMatrixAt(i) = resolveWorldTransform(frame.scene, frame.calls[i].entity)

\* The draw calls of the frame on the meshes of a pass.
PassDraws(meshes) ==
    {i \in CallsAt : frame.calls[i].op = "draw" /\ frame.calls[i].target \in meshes}

\* C8: in a frame of an initialized surface the passes run in the order grid,
\* mesh, outline: grid draws precede mesh draws, and every entity flagged as
\* intersecting gets an outline draw after every mesh draw.
C8_PassOrder ==
    (frame.drawn /\ Held = Resources) =>
        /\ \A i \in PassDraws({"gridMesh"}) : \A j \in PassDraws({"cubeMesh"}) : i < j
        /\ \A e \in EntityIds :
              Intersecting(frame.scene, e) =>
                  \E k \in PassDraws({"outline"}) :
                      /\ frame.calls[k].entity = e
                      /\ \A j \in PassDraws({"cubeMesh"}) : j < k

\* C9: in a frame of an initialized surface the Intersection System update
\* runs exactly once, before the clear and before every draw call.
C9_IntersectionUpdateFirst ==
    (frame.drawn /\ Held = Resources) =>
        LET updates == {i \in CallsAt : frame.calls[i].op = "intersectionUpdate"}
        IN  /\ Cardinality(updates) = 1
            /\ \A u \in updates :
                  \A i \in CallsAt :
                      frame.calls[i].op \in {"clear", "draw"} => u < i

\* The per-entity calls of the grid pass for entity e.
GridCallsFor(e) ==
    {i \in CallsAt : /\ frame.calls[i].target \in {"gridShader", "gridMesh"}
                     /\ frame.calls[i].entity = e}

\* C10: in every frame whose grid pass runs, each entity with a visible
\* GridComponent gets exactly one grid draw call; an entity whose
\* GridComponent has visible = false gets no grid draw call and no uniform
\* set, and so does every entity without GridComponent, whatever the other
\* entities are.  A frame whose grid pass does not run has no grid draw call.
C10_OneGridDrawPerVisibleGrid ==
    frame.drawn =>
        \A e \in EntityIds :
            IF GridPassRuns /\ HasGrid(frame.scene, e) /\ Visible(frame.scene, e)
            THEN Cardinality(DrawsOf("gridMesh", e)) = 1
            ELSE GridCallsFor(e) = {}

\* C10 witness: a frame whose grid pass ran over a registry with a visible
\* and a hidden grid: one draw call for the first, no call for the second.
C10_Witness ==
    /\ frame.drawn
    /\ GridPassRuns
    /\ \E e, h \in EntityIds :
          /\ frame.scene.kind[e] = "grid"
          /\ frame.scene.kind[h] = "hiddenGrid"
          /\ Cardinality(DrawsOf("gridMesh", e)) = 1
          /\ GridCallsFor(h) = {}

\* The size a resize gave the surface has an empty dimension.
SurfaceEmpty == surfaceSize[1] <= 0 \/ surfaceSize[2] <= 0

\* C11: a resize with a zero or negative width or height leaves the
\* viewport dimensions of the last valid resize unchanged, and the frames that
\* follow it use the aspect ratio of that last valid size.
C11_AspectOfLastValidSize ==
    [][ /\ (event'.op = "resizeGL"
             /\ (event'.args[1] <= 0 \/ event'.args[2] <= 0))
              => viewport' = viewport
        /\ (frame'.drawn /\ SurfaceEmpty' /\ viewport' # NoViewport)
              => frame'.aspect = FloatDiv(viewport'[1], viewport'[2]) ]_vars

\* C12: the aspect ratio of every frame is width / height of the surface when
\* the height is positive and 1.0 when the height is zero, and no frame's
\* aspect ratio is the result of a division by zero.
C12_AspectRatioGuarded ==
    frame.drawn =>
        /\ surfaceSize[2] > 0 =>
              /\ frame.aspect[1] * surfaceSize[2] = frame.aspect[2] * surfaceSize[1]
              /\ frame.aspect[2] > 0
        /\ surfaceSize[2] = 0 => frame.aspect = <<1, 1>>
        /\ frame.aspect[2] # 0

\* C12 witness: a frame drawn while the surface has a positive width and
\* height zero used the aspect ratio 1.0.
C12_Witness ==
    /\ frame.drawn
    /\ surfaceSize[1] > 0
    /\ surfaceSize[2] = 0
    /\ frame.aspect = <<1, 1>>

\* The step was a press of key P.
PressedP(ev) == ev.op = "keyPressEvent" /\ ev.args = <<"Key_P">>

\* C13: a press of key P flips the projection mode of the camera and leaves
\* its orbit angles, look-at target and distance unchanged; a second press
\* with no event in between gives back the camera there was before the first.
C13_ToggleTwiceRestores ==
    [][ /\ PressedP(event') =>
              /\ camera'.perspective = ~camera.perspective
              /\ camera'.orbit = camera.orbit
              /\ camera'.target = camera.target
              /\ camera'.distance = camera.distance
        /\ (PressedP(event) /\ PressedP(event')) =>
              /\ camera' = event.before
              /\ camera'.perspective # camera.perspective ]_vars

\* C13 witness: after a drag that moved the camera away from the default
\* view, a press of P has returned the projection mode to the perspective
\* mode the surface started with, the pose being the one before the press.
C13_Witness ==
    /\ PressedP(event)
    /\ ~event.before.perspective
    /\ camera.perspective
    /\ camera.orbit # <<0, 0>>
    /\ camera.orbit = event.before.orbit

\* The mouse handlers.
MouseOps == {"mousePressEvent", "mouseMoveEvent"}

\* The orbit or the pan button is among the buttons held.
DragHeld(buttons) == "left" \in buttons \/ "middle" \in buttons

\* C15 as stated: the delta a move hands to the camera is the difference
\* between the position of the move and the position of the press or move
\* before it; it is handed over only with the left or middle button held,
\* as a pan whenever the middle button is held; and after every press and
\* move the stored position is the position of that event.
C15_DeltaIsDifference ==
    [][ /\ event'.op = "mouseMoveEvent" =>
              LET pos == event'.args[1]
                  buttons == event'.args[2]
              IN  /\ DragHeld(buttons) =>
                        CameraCalls(event'.calls) =
                          << Invoke("processMouseMovement",
                                    << pos[1] - m_lastMousePos[1],
                                       pos[2] - m_lastMousePos[2],
                                       "middle" \in buttons >>) >>
                  /\ ~DragHeld(buttons) => CameraCalls(event'.calls) = <<>>
        /\ event'.op \in MouseOps => m_lastMousePos' = event'.args[1]
        /\ event'.op \notin MouseOps => m_lastMousePos' = m_lastMousePos
        /\ event.op \in MouseOps => m_lastMousePos = event.args[1] ]_vars

\* C15 amended: the delta a move hands to the camera is (dx, -dy), where
\* (dx, dy) is the difference between the position of the move and the
\* position of the press or move before it.  The rest as stated.
C15_DeltaFromLastPosition ==
    [][ /\ event'.op = "mouseMoveEvent" =>
              LET pos == event'.args[1]
                  buttons == event'.args[2]
              IN  /\ DragHeld(buttons) =>
                        CameraCalls(event'.calls) =
                          << Invoke("processMouseMovement",
                                    << pos[1] - m_lastMousePos[1],
                                       -(pos[2] - m_lastMousePos[2]),
                                       "middle" \in buttons >>) >>
                  /\ ~DragHeld(buttons) => CameraCalls(event'.calls) = <<>>
        /\ event'.op \in MouseOps => m_lastMousePos' = event'.args[1]
        /\ event'.op \notin MouseOps => m_lastMousePos' = m_lastMousePos
        /\ event.op \in MouseOps => m_lastMousePos = event.args[1] ]_vars

\* C15 witness: a move with the left and the middle button held has handed
\* the camera a pan with a vertical component, and the stored position is
\* the position of the move.
C15_Witness ==
    /\ event.op = "mouseMoveEvent"
    /\ {"left", "middle"} \subseteq event.args[2]
    /\ Len(event.calls) = 2
    /\ event.calls[1].fn = "processMouseMovement"
    /\ event.calls[1].args[2] # 0
    /\ event.calls[1].args[3]
    /\ m_lastMousePos = event.args[1]

\* The input handlers.
InputOps == {"mousePressEvent", "mouseMoveEvent", "wheelEvent", "keyPressEvent"}

\* The camera operation the event of an input handler is to reach, "" if none.
Reaches(ev) ==
    IF ev.op = "mouseMoveEvent" /\ DragHeld(ev.args[2]) THEN "processMouseMovement"
    ELSE IF ev.op = "wheelEvent" THEN "processMouseScroll"
    ELSE IF ev.op = "keyPressEvent" /\ ev.args = <<"Key_P">> THEN "toggleProjection"
    ELSE IF ev.op = "keyPressEvent" /\ ev.args = <<"Key_R">> THEN "setToKnownGoodView"
    ELSE ""

\* C16: an input handler whose event reaches the camera calls the camera
\* operation once and then update() once; a handler whose event does not
\* reach the camera (a move with neither the left nor the middle button, any
\* other key, a press) calls neither and leaves the camera unchanged.  So a
\* handler that changes the camera requests a redraw.
C16_CameraChangeRequestsRedraw ==
    event.op \in InputOps =>
        /\ Reaches(event) # "" =>
              /\ Len(event.calls) = 2
              /\ event.calls[1].fn = Reaches(event)
              /\ event.calls[2] = UpdateCall
              /\ step.updates = 1
        /\ Reaches(event) = "" =>
              /\ event.calls = <<>>
              /\ step.updates = 0
              /\ camera = event.before
        /\ camera # event.before => step.updates >= 1

\* C16 witness: a press of key R has moved the camera back to the default
\* view and requested a redraw.
C16_Witness ==
    /\ event.op = "keyPressEvent"
    /\ event.args = <<"Key_R">>
    /\ camera # event.before
    /\ step.updates = 1

\* C14: a failure of one pass's shader in initializeGL is isolated to that
\* pass.  In the frame that follows an initializeGL in which the constructor
\* of the grid shader threw (and no other would have), every mesh entity gets
\* its draw call; in the frame that follows one in which the constructor of
\* the phong shader threw, every visible grid gets its draw call.
C14_FailureIsolatedPerPass ==
    [][ (step.op = "initializeGL" /\ frame'.drawn) =>
          /\ step.failAt = "gridShader" =>
                \A e \in EntityIds :
                    HasRenderableMesh(frame'.scene, e)
                        => Cardinality(DrawsOf("cubeMesh", e)') = 1
          /\ step.failAt = "phongShader" =>
                \A e \in EntityIds :
                    (HasGrid(frame'.scene, e) /\ Visible(frame'.scene, e))
                        => Cardinality(DrawsOf("gridMesh", e)') = 1 ]_vars

\* The program bound when call i is issued: the target of the last use()
\* before it, "" if none.
BoundAt(i) ==
    LET uses == {j \in CallsAt : j < i /\ frame.calls[j].op = "use"}
    IN  IF uses = {} THEN ""
        ELSE frame.calls[CHOOSE j \in uses : \A k \in uses : k <= j].target

\* The uniforms of a grid's levels.
LevelNames ==
    {"u_numLevels"} \cup
    {"u_levels[" \o ToString(l) \o "]." \o f :
        l \in 0..(NumLevels - 1),
        f \in {"spacing", "color", "fadeInCameraDistanceEnd",
               "fadeInCameraDistanceStart"}}

\* Uniform name of shader was set for entity e (0: for the pass) before call
\* i and after the draw call before i, if there is one.
SetBefore(i, shader, name, e) ==
    \E j \in CallsAt :
        /\ j < i
        /\ frame.calls[j].op = "set"
        /\ frame.calls[j].target = shader
        /\ frame.calls[j].name = name
        /\ frame.calls[j].entity = e
        /\ e # 0 => \A k \in CallsAt : (j < k /\ k < i) => frame.calls[k].op # "draw"

\* The calls of the frame on shader that satisfy the test.
CallsOn(shader, Test(_)) ==
    {j \in CallsAt : frame.calls[j].target = shader /\ Test(frame.calls[j])}

\* C17: every draw call of a frame is issued while the shader of its pass is
\* the bound program and after the model matrix of its entity (and, for a
\* grid, the level uniforms of its entity) was set since the draw before;
\* the pass binds its shader once and sets its view and projection uniforms
\* once, before the first call for an entity.
C17_PassSetsItsOwnState ==
    frame.drawn =>
        \A i \in CallsAt :
            LET c == frame.calls[i]
                grid == c.target = "gridMesh"
                shader == IF grid THEN "gridShader" ELSE "phongShader"
                model == IF grid THEN "u_gridModelMatrix" ELSE "model"
                view == IF grid THEN "u_viewMatrix" ELSE "view"
                proj == IF grid THEN "u_projectionMatrix" ELSE "projection"
            IN  c.op = "draw" =>
                  /\ BoundAt(i) = shader
                  /\ SetBefore(i, shader, model, c.entity)
                  /\ grid => \A n \in LevelNames : SetBefore(i, shader, n, c.entity)
                  /\ Cardinality(CallsOn(shader, LAMBDA d : d.op = "use")) = 1
                  /\ Cardinality(CallsOn(shader, LAMBDA d : d.name = view)) = 1
                  /\ Cardinality(CallsOn(shader, LAMBDA d : d.name = proj)) = 1
                  /\ \A k \in CallsOn(shader, LAMBDA d : d.entity # 0) :
                        /\ SetBefore(k, shader, view, 0)
                        /\ SetBefore(k, shader, proj, 0)
                        /\ \E u \in CallsOn(shader, LAMBDA d : d.op = "use") : u < k

\* C17 witness: a frame in which both passes ran and a mesh draw followed a
\* grid draw, each under the shader of its own pass.
C17_Witness ==
    /\ frame.drawn
    /\ Held = Resources
    /\ \E i, j \in CallsAt :
          /\ i < j
          /\ frame.calls[i].op = "draw" /\ frame.calls[i].target = "gridMesh"
          /\ frame.calls[j].op = "draw" /\ frame.calls[j].target = "cubeMesh"
          /\ BoundAt(i) = "gridShader"
          /\ BoundAt(j) = "phongShader"

\* C18: the destructor's disconnect is safe in every ordering.  The context
\* m_glContext points to when the destructor uses it is still alive (or the
\* pointer is null), the destructor returns, and once the widget is destroyed
\* no connection to cleanup is left and cleanup does not run.
C18_DisconnectAlwaysSafe ==
    [][ /\ step'.op = "destructor" =>
              /\ m_glContext = Null \/ m_glContext = context
              /\ widget' = "destroyed"
        /\ widget' = "destroyed" =>
              /\ cleanupConns' = 0
              /\ step'.cleanupRuns = 0 ]_vars

\* C19: the timer's timeout is connected to update() at most once, however
\* many times initializeGL has run: a running timer has exactly one
\* connection, and every tick requests exactly one redraw.
C19_TimerConnectedOnce ==
    /\ timerConns <= 1
    /\ timerActive => timerConns = 1
    /\ step.op = "timerTick" => step.updates = 1

\* C19 witness: initializeGL has run for a second context, and a tick of the
\* timer has requested one redraw.
C19_Witness ==
    /\ contextsMade >= 2
    /\ context = contextsMade
    /\ step.op = "timerTick"
    /\ step.updates = 1

=============================================================================
